---- MODULE Spec2Model ----
(***************************************************************************)
(* Model of observe-rs: ModManager::new and ModManager::sync               *)
(* (src/src/mod_manager.rs) acting on a filesystem and a set of mirrors.   *)
(*                                                                         *)
(* The filesystem is a map from paths to file contents; a GET of a URL is  *)
(* answered afresh each time it is sent.  sync is sequential, so its       *)
(* position is a program counter (pc) plus the loop indices.  One action   *)
(* is one iteration of one of its loops.                                   *)
(***************************************************************************)
EXTENDS Integers, Sequences, FiniteSets, TLC

VARIABLES
    index,      \* MRIndex.files as parsed (before filtering)
    files,      \* ModManager.files (after the filter of new)
    overrides,  \* ModManager.overrides: path -> content
    prune,      \* ModManager.prune
    fs,         \* the filesystem: path -> content, or NoFile
    dirs,       \* the directories that exist
    pc,         \* where sync is: "files", "overrides", "prune_index", "prune_overrides", "done"
    fileIdx,    \* position of `for file in &self.files`
    urlIdx,     \* position of `for url in &file.downloads` (0: not downloading)
    written,    \* the overrides already written by `for (path, content) in &self.overrides`
    dirIdx,     \* position of `for dir in PRUNE_DIRECTORIES_*`
    visited,    \* the files the current WalkDir has already yielded
    result,     \* what sync returned: "none" while it runs
    run,        \* number of the current call of sync (SpecTwice calls it again)
    log,        \* the filesystem and network operations of the current call, in order
    zip,        \* main: the entries of the .mrpack archive, in archive order
    zmap,       \* read_overrides: the HashMap it builds
    zpass,      \* read_overrides: 1 in its first loop, 2 in its second, 3 when it has returned
    zpos,       \* read_overrides: position of `for i in 0..zip.len()`
    zresult     \* read_overrides: "none" while it runs, then "Ok" or "Err"

\* the state of read_overrides
archive == <<zip, zmap, zpass, zpos, zresult>>

vars == <<index, files, overrides, prune, fs, dirs, pc, fileIdx, urlIdx,
          written, dirIdx, visited, result, run, log, archive>>

----------------------------------------------------------------------------
(* Bounds of the model *)

\* number of successive calls of sync on the same ModManager
MaxRuns == 2

\* largest number of entries of the archive read_overrides walks
MaxZip == 3

\* largest number of entries of MRIndex.files
MaxFiles == 2

----------------------------------------------------------------------------
(* Paths, contents, digests *)

NoFile == "NoFile"

\* an incomplete body: what File::create followed by a failed read/write leaves
Partial == "partial"

\* complete file contents (bodies served by mirrors, override blobs, files on disk)
Data == {"A", "B"}

Contents == Data \cup {Partial}

Paths == {"mods/a.jar", "resourcepacks/r.zip", "config/c.cfg", "world/w.dat"}

\* Path::parent
Parent(p) ==
    CASE p = "mods/a.jar" -> "mods"
      [] p = "resourcepacks/r.zip" -> "resourcepacks"
      [] p = "config/c.cfg" -> "config"
      [] p = "world/w.dat" -> "world"

PRUNE_DIRECTORIES_INDEX == <<"mods", "resourcepacks">>
PRUNE_DIRECTORIES_OVERRIDES == <<"config">>

\* Sha1::digest and Sha512::digest: injective on the contents of the model
Sha1(data) == <<"sha1", data>>
Sha512(data) == <<"sha512", data>>

check_sha1(data, expected_hash) == Sha1(data) = expected_hash

check_sha512(data, expected_hash) == Sha512(data) = expected_hash

\* file_is_valid with `||` in place of `&&`
file_is_valid_either(data, mr_file) ==
    \/ check_sha1(data, mr_file.hashes.sha1)
    \/ check_sha512(data, mr_file.hashes.sha512)

\* ModManager::file_is_valid on the bytes read from the local file
file_is_valid(data, mr_file) ==
    /\ check_sha1(data, mr_file.hashes.sha1)
    /\ check_sha512(data, mr_file.hashes.sha512)

----------------------------------------------------------------------------
(* The inputs: manifests, override maps, mirrors, initial filesystems *)

\* Option<Environment>: None is the empty sequence, Some(env) is <<env>>
NoEnv == <<>>
SomeEnv(client, server) == <<[client |-> client, server |-> server]>>

Requirement == {"Required", "Optional", "Unsupported"}

\* FileHashes of the manifest: the digests of one content, or of two different ones
GoodHashes == [sha1 |-> Sha1("A"), sha512 |-> Sha512("A")]
MixedHashes == [sha1 |-> Sha1("A"), sha512 |-> Sha512("B")]

Urls == {"u1", "u2"}

MRFile(path, hashes, env, downloads) ==
    [path |-> path, hashes |-> hashes, env |-> env, downloads |-> downloads]

\* the declared files a manifest of the model is made of
Entries ==
    { MRFile("mods/a.jar", GoodHashes, NoEnv, <<"u1", "u2">>),
      MRFile("mods/a.jar", MixedHashes, NoEnv, <<"u1">>),
      MRFile("mods/a.jar", GoodHashes,
             SomeEnv("Required", "Unsupported"), <<"u1">>),
      MRFile("resourcepacks/r.zip", GoodHashes,
             SomeEnv("Unsupported", "Optional"), <<"u2">>),
      MRFile("resourcepacks/r.zip", GoodHashes,
             SomeEnv("Optional", "Unsupported"), <<"u2">>),
      MRFile("config/c.cfg", GoodHashes, NoEnv, <<>>) }

\* sequences of at most n entries with pairwise different paths
RECURSIVE Manifests(_)
Manifests(n) ==
    IF n = 0 THEN {<<>>}
    ELSE LET shorter == Manifests(n - 1) IN
         shorter \cup
         { Append(m, e) : <<m, e>> \in
             { x \in shorter \X Entries :
                 /\ Len(x[1]) = n - 1
                 /\ \A i \in 1..Len(x[1]) : x[1][i].path # x[2].path } }

\* the override maps of the model: HashMap<PathBuf, Vec<u8>>
OverrideMaps ==
    { <<>>,
      [p \in {"config/c.cfg"} |-> "B"],
      [p \in {"mods/a.jar", "world/w.dat"} |-> IF p = "mods/a.jar" THEN "B" ELSE "A"] }

\* the files on disk before the first sync: the declared paths under mods and
\* config may be missing, there is a resource pack that no entry declares the
\* digests of, and there is a file outside the managed directories
InitFiles ==
    { f \in [Paths -> Data \cup {NoFile}] :
        /\ f["resourcepacks/r.zip"] = "B"
        /\ f["config/c.cfg"] # "B"
        /\ f["world/w.dat"] = "B" }

\* what a GET of one URL does: the request fails (send returns Err), the body
\* breaks (response.read returns Err after the bytes of body have arrived: a
\* part of the content, or all of it), or a response with a status and a body
\* arrives in full
SendErr == [kind |-> "SendErr", status |-> "-", body |-> "-"]
Behaviours ==
    { SendErr,
      [kind |-> "BodyErr", status |-> "ok", body |-> Partial],
      [kind |-> "BodyErr", status |-> "ok", body |-> "A"],
      [kind |-> "Full", status |-> "ok", body |-> "A"],
      [kind |-> "Full", status |-> "ok", body |-> "B"],
      [kind |-> "Full", status |-> "not_found", body |-> "B"] }

\* the answers a URL can give: every request is a new one and any of them may come
Answers(url) == Behaviours

----------------------------------------------------------------------------
(* ModManager::new *)

\* the filter of new reading the client requirement
keep_client(f) == IF f.env = NoEnv THEN TRUE ELSE f.env[1].client # "Unsupported"

\* the closure of the filter in new
keep(f) == IF f.env = NoEnv THEN TRUE ELSE f.env[1].server # "Unsupported"

new_files(idx) == SelectSeq(idx, keep)

Init ==
    /\ index \in Manifests(MaxFiles)
    /\ files = new_files(index)
    /\ overrides \in OverrideMaps
    /\ prune \in BOOLEAN
    /\ fs \in InitFiles
    /\ dirs = { Parent(p) : p \in { q \in Paths : fs[q] # NoFile } }
    /\ pc = "files"
    /\ fileIdx = 1
    /\ urlIdx = 0
    /\ written = {}
    /\ dirIdx = 1
    /\ visited = {}
    /\ result = "none"
    /\ run = 1
    /\ log = <<>>
    /\ zip = <<>>
    /\ zmap = <<>>
    /\ zpass = 3
    /\ zpos = 1
    /\ zresult = "Ok"

----------------------------------------------------------------------------
(* ModManager::sync *)

\* one operation of sync on the filesystem or the network
Event(op, path, url, out) ==
    [op |-> op, path |-> path, url |-> url, out |-> out, cause |-> "-", data |-> "-"]

\* File::open: out is what it gave (NoFile for Err), data is what was on disk
Opened(path, found) == [Event("open", path, "-", found) EXCEPT !.data = fs[path]]

\* try_download_file: out is the status of the response when it returned Ok and
\* its error otherwise, cause is the call that failed, data is the body written
Got(path, url, out, cause, data) ==
    [Event("get", path, url, out) EXCEPT !.cause = cause, !.data = data]

\* sync returns err
Return(err) ==
    /\ result' = err
    /\ pc' = "done"

\* the declared-file loop stopping after its first entry
FilesLoopOver_early == fileIdx > 1 \/ fileIdx > Len(files)

\* `for file in &self.files` has no entry left
FilesLoopOver == fileIdx > Len(files)

\* File::open(path): the content of the file, or NoFile for Err, which it
\* returns when there is no file and may return when there is one
open(path) == {fs[path], NoFile}

\* `let need_download = match File::open(&file.path) ...`, found being what
\* File::open gave
need_download(found, file) ==
    IF found = NoFile THEN TRUE ELSE ~file_is_valid(found, file)

\* the declared-file loop goes on with the next entry
NextFile ==
    /\ fileIdx' = fileIdx + 1
    /\ urlIdx' = 0
    /\ UNCHANGED <<pc, result>>

\* `for url in &file.downloads` begins: with no URL at all the loop is over
\* at once and download_file returns AllDownloadsFailed
FirstUrl(file) ==
    IF Len(file.downloads) >= 1
    THEN /\ urlIdx' = 1
         /\ UNCHANGED <<fileIdx, pc, result>>
    ELSE /\ Return("AllDownloadsFailed")
         /\ UNCHANGED <<fileIdx, urlIdx>>

\* Path::exists: false when the directory is not there, and also when it
\* cannot be examined
exists(dir) == {dir \in dirs, FALSE}

\* download_file up to its loop: create_dir_all when parent.exists() is false
BeginDownload(file, found) ==
    LET parent == Parent(file.path)
        opened == Opened(file.path, found) IN
    \E there \in exists(parent) :
       \/ /\ there
          /\ FirstUrl(file)
          /\ log' = Append(log, opened)
          /\ UNCHANGED dirs
       \/ /\ ~there
          /\ dirs' = dirs \cup {parent}
          /\ FirstUrl(file)
          /\ log' = log \o <<opened, Event("mkdir", parent, "-", "Ok")>>
       \/ /\ ~there
          /\ Return("IOError")
          /\ log' = log \o <<opened, Event("mkdir", parent, "-", "IOError")>>
          /\ UNCHANGED <<dirs, fileIdx, urlIdx>>

\* one iteration of `for file in &self.files`, up to the loop of download_file
CheckFile ==
    /\ pc = "files"
    /\ urlIdx = 0
    /\ ~FilesLoopOver
    /\ LET file == files[fileIdx] IN
       \E found \in open(file.path) :
          \/ \* the file was opened and is valid: `pb_files.inc(1)`
             /\ ~need_download(found, file)
             /\ NextFile
             /\ log' = Append(log, Opened(file.path, found))
             /\ UNCHANGED dirs
          \/ \* the file was not opened, or is invalid: download_file
             /\ need_download(found, file)
             /\ BeginDownload(file, found)
          \/ \* read_to_end fails: the unwrap in file_is_valid panics
             /\ found # NoFile
             /\ Return("Panic")
             /\ log' = Append(log, Opened(file.path, found))
             /\ UNCHANGED <<dirs, fileIdx, urlIdx>>
    /\ UNCHANGED <<archive, index, files, overrides, prune, fs, written, dirIdx,
                   visited, run>>

\* how far try_download_file gets, given the mirror's answer: send fails
\* ("SendErr"), File::create fails ("CreateErr"), response.read fails ("BodyErr"),
\* write_all fails ("WriteErr"), or the loop ends at n == 0 ("Ok")
AttemptOutcomes(answer) ==
    CASE answer.kind = "SendErr" -> {"SendErr"}
      [] answer.kind = "BodyErr" -> {"CreateErr", "WriteErr", "BodyErr"}
      [] answer.kind = "Full" -> {"CreateErr", "WriteErr", "Ok"}

\* the value try_download_file returns: `?` turns a reqwest::Error into
\* DownloadFailed and an io::Error into IOError (errors.rs)
AttemptResult(out) ==
    CASE out = "SendErr" -> "DownloadFailed"
      [] out \in {"CreateErr", "BodyErr", "WriteErr"} -> "IOError"
      [] out = "Ok" -> "Ok"

\* the file at the path after try_download_file: File::create truncates it,
\* and every chunk read before a failing read has been written
AfterAttempt(old, answer, out) ==
    CASE out \in {"SendErr", "CreateErr"} -> old
      [] out = "WriteErr" -> Partial
      [] out \in {"BodyErr", "Ok"} -> answer.body

\* download_file without its `return Ok(())`: the loop goes on after a success
DownloadOk_keepGoing ==
    IF urlIdx < Len(files[fileIdx].downloads)
    THEN /\ urlIdx' = urlIdx + 1
         /\ UNCHANGED <<fileIdx, pc, result>>
    ELSE NextFile

\* download_file after try_download_file returned Ok: `return Ok(())`, and
\* sync goes on with the next entry
DownloadOk == NextFile

\* sync dropping the error of download_file instead of returning it
DownloadErr_skip(file) ==
    IF urlIdx < Len(file.downloads)
    THEN /\ urlIdx' = urlIdx + 1
         /\ UNCHANGED <<fileIdx, pc, result>>
    ELSE NextFile

\* download_file after try_download_file returned Err: `continue`, and
\* AllDownloadsFailed after the last URL, which `?` in sync returns
DownloadErr(file) ==
    IF urlIdx < Len(file.downloads)
    THEN /\ urlIdx' = urlIdx + 1
         /\ UNCHANGED <<fileIdx, pc, result>>
    ELSE /\ Return("AllDownloadsFailed")
         /\ UNCHANGED <<fileIdx, urlIdx>>

\* one iteration of `for url in &file.downloads`
TryDownload ==
    /\ pc = "files"
    /\ urlIdx >= 1
    /\ LET file == files[fileIdx]
           url == file.downloads[urlIdx] IN
       \E answer \in Answers(url) : \E out \in AttemptOutcomes(answer) :
          /\ fs' = [fs EXCEPT ![file.path] = AfterAttempt(@, answer, out)]
          /\ log' = Append(log, IF out = "Ok"
                                THEN Got(file.path, url, answer.status, out, answer.body)
                                ELSE Got(file.path, url, AttemptResult(out), out, "-"))
          /\ IF AttemptResult(out) = "Ok" THEN DownloadOk ELSE DownloadErr(file)
    /\ UNCHANGED <<archive, index, files, overrides, prune, dirs, written, dirIdx, visited, run>>

\* println!: the line is written to stdout, or the write fails and the macro panics
println == {TRUE, FALSE}

\* the declared-file loop is over: its summary is printed and the override
\* loop begins
FilesDone ==
    /\ pc = "files"
    /\ FilesLoopOver
    /\ \E printed \in println :
          IF printed
          THEN /\ pc' = "overrides"
               /\ UNCHANGED result
          ELSE Return("Panic")
    /\ UNCHANGED <<archive, index, files, overrides, prune, fs, dirs, fileIdx, urlIdx,
                   written, dirIdx, visited, run, log>>

\* what writing one override does: create_dir_all when parent.exists() is
\* false, File::create, write_all
OverrideOutcomes(path) ==
    IF FALSE \in exists(Parent(path))
    THEN {"MkdirErr", "CreateErr", "WriteErr", "Ok"}
    ELSE {"CreateErr", "WriteErr", "Ok"}

\* one iteration of `for (path, content) in &self.overrides`; a HashMap is
\* iterated in no particular order
WriteOverride ==
    /\ pc = "overrides"
    /\ \E path \in (DOMAIN overrides) \ written : \E out \in OverrideOutcomes(path) :
          /\ dirs' = IF out = "MkdirErr" THEN dirs ELSE dirs \cup {Parent(path)}
          /\ fs' = [fs EXCEPT ![path] =
                       CASE out \in {"MkdirErr", "CreateErr"} -> @
                         [] out = "WriteErr" -> Partial
                         [] out = "Ok" -> overrides[path]]
          /\ log' = Append(log, Event("override", path, "-",
                                      IF out = "Ok" THEN "Ok" ELSE "IOError"))
          /\ IF out = "Ok"
             THEN /\ written' = written \cup {path}
                  /\ UNCHANGED <<pc, result>>
             ELSE /\ Return("IOError")
                  /\ UNCHANGED written
    /\ UNCHANGED <<archive, index, files, prune, overrides, fileIdx, urlIdx, dirIdx,
                   visited, run>>

\* the override loop is over: its summary is printed, then
\* `if self.prune { ... }`, else Ok(())
OverridesDone ==
    /\ pc = "overrides"
    /\ written = DOMAIN overrides
    /\ \E printed \in println :
          IF ~printed
          THEN /\ Return("Panic")
               /\ UNCHANGED <<dirIdx, visited>>
          ELSE IF prune
               THEN /\ pc' = "prune_index"
                    /\ dirIdx' = 1
                    /\ visited' = {}
                    /\ UNCHANGED result
               ELSE /\ Return("Ok")
                    /\ UNCHANGED <<dirIdx, visited>>
    /\ UNCHANGED <<archive, index, files, overrides, prune, fs, dirs, fileIdx, urlIdx,
                   written, run, log>>

\* the items WalkDir::new(dir) can yield: for the directory itself and for
\* what is below it, the entry, or an Err when it cannot be read
WalkEntries(dir) ==
    LET there == (IF dir \in dirs THEN {dir} ELSE {}) \cup
                 { p \in Paths : Parent(p) = dir /\ fs[p] # NoFile }
    IN  { [entry |-> e, ok |-> b] : e \in there, b \in BOOLEAN }

\* the walk without its filter: every entry counts as a file
is_file_any(entry) == TRUE

\* entry.file_type().is_file()
is_file(entry) == entry \in Paths

\* the regular files the loops of the prune phase can be given:
\* filter_map(|e| e.ok()), then filter(is_file)
WalkDir(dir) ==
    { item.entry : item \in { it \in WalkEntries(dir) : it.ok /\ is_file(it.entry) } }

\* what the walk gives for a file it has not gone through yet: the entry or an Err
Yielded(dir) ==
    { item \in WalkEntries(dir) : is_file(item.entry) /\ item.entry \notin visited }

is_in_index(path) == \E i \in 1..Len(files) : files[i].path = path

is_in_overrides(path) == path \in DOMAIN overrides

\* path.is_dir()
is_dir(path) == path \in dirs

\* the files after delete_file(path) succeeded: remove_dir_all of a directory,
\* remove_file of anything else
delete_file(path) ==
    IF is_dir(path)
    THEN [p \in Paths |-> IF Parent(p) = path THEN NoFile ELSE fs[p]]
    ELSE [fs EXCEPT ![path] = NoFile]

\* the loops dropping the error of delete_file instead of returning it with `?`
PruneFile_swallow(path, member) ==
    /\ visited' = visited \cup {path}
    /\ \/ /\ member
          /\ UNCHANGED <<fs, dirs, pc, result, log>>
       \/ /\ ~member
          /\ fs' = delete_file(path)
          /\ dirs' = dirs \ {path}
          /\ log' = Append(log, Event("delete", path, "-", "Ok"))
          /\ UNCHANGED <<pc, result>>
       \/ /\ ~member
          /\ log' = Append(log, Event("delete", path, "-", "DeleteFailed"))
          /\ UNCHANGED <<fs, dirs, pc, result>>

\* the body of the two loops over the walked files: delete_file on a non-member
PruneFile(path, member) ==
    /\ visited' = visited \cup {path}
    /\ \/ /\ member
          /\ UNCHANGED <<fs, dirs, pc, result, log>>
       \/ /\ ~member
          /\ fs' = delete_file(path)
          /\ dirs' = dirs \ {path}
          /\ log' = Append(log, Event("delete", path, "-", "Ok"))
          /\ UNCHANGED <<pc, result>>
       \/ /\ ~member
          /\ Return("DeleteFailed")
          /\ log' = Append(log, Event("delete", path, "-", "DeleteFailed"))
          /\ UNCHANGED <<fs, dirs>>

\* filter_map(|e| e.ok()) drops the Err the walk gave for the entry
DropErr(entry) ==
    /\ visited' = visited \cup {entry}
    /\ UNCHANGED <<fs, dirs, pc, result, log>>

\* one step of the walk under a directory of PRUNE_DIRECTORIES_INDEX: an
\* iteration of `for file in files`, or an Err dropped
PruneIndex ==
    /\ pc = "prune_index"
    /\ \E item \in Yielded(PRUNE_DIRECTORIES_INDEX[dirIdx]) :
          IF item.ok
          THEN PruneFile(item.entry, is_in_index(item.entry))
          ELSE DropErr(item.entry)
    /\ UNCHANGED <<archive, index, files, overrides, prune, fileIdx, urlIdx,
                   written, dirIdx, run>>

\* the walk of one index directory is over
PruneIndexNext ==
    /\ pc = "prune_index"
    /\ WalkDir(PRUNE_DIRECTORIES_INDEX[dirIdx]) \subseteq visited
    /\ visited' = {}
    /\ IF dirIdx < Len(PRUNE_DIRECTORIES_INDEX)
       THEN /\ dirIdx' = dirIdx + 1
            /\ UNCHANGED pc
       ELSE /\ dirIdx' = 1
            /\ pc' = "prune_overrides"
    /\ UNCHANGED <<archive, index, files, overrides, prune, fs, dirs, fileIdx, urlIdx,
                   written, result, run, log>>

\* one step of the walk under a directory of PRUNE_DIRECTORIES_OVERRIDES
PruneOverrides ==
    /\ pc = "prune_overrides"
    /\ \E item \in Yielded(PRUNE_DIRECTORIES_OVERRIDES[dirIdx]) :
          IF item.ok
          THEN PruneFile(item.entry, is_in_overrides(item.entry))
          ELSE DropErr(item.entry)
    /\ UNCHANGED <<archive, index, files, overrides, prune, fileIdx, urlIdx,
                   written, dirIdx, run>>

\* the walk of one override directory is over; after the last one the
\* summary is printed and sync returns Ok(())
PruneOverridesNext ==
    /\ pc = "prune_overrides"
    /\ WalkDir(PRUNE_DIRECTORIES_OVERRIDES[dirIdx]) \subseteq visited
    /\ visited' = {}
    /\ IF dirIdx < Len(PRUNE_DIRECTORIES_OVERRIDES)
       THEN /\ dirIdx' = dirIdx + 1
            /\ UNCHANGED <<pc, result>>
       ELSE /\ \E printed \in println : Return(IF printed THEN "Ok" ELSE "Panic")
            /\ UNCHANGED dirIdx
    /\ UNCHANGED <<archive, index, files, overrides, prune, fs, dirs, fileIdx, urlIdx,
                   written, run, log>>

\* sync is called again on the same manifest and overrides, after a success
SyncAgain ==
    /\ result = "Ok"
    /\ run < MaxRuns
    /\ run' = run + 1
    /\ pc' = "files"
    /\ fileIdx' = 1
    /\ urlIdx' = 0
    /\ written' = {}
    /\ dirIdx' = 1
    /\ visited' = {}
    /\ result' = "none"
    /\ log' = <<>>
    /\ UNCHANGED <<archive, index, files, overrides, prune, fs, dirs>>

Next ==
    \/ CheckFile
    \/ TryDownload
    \/ FilesDone
    \/ WriteOverride
    \/ OverridesDone
    \/ PruneIndex
    \/ PruneIndexNext
    \/ PruneOverrides
    \/ PruneOverridesNext

\* one call of sync on a freshly constructed ModManager
Spec == Init /\ [][Next]_vars

NextTwice ==
    \/ Next
    \/ SyncAgain

\* successive calls of sync, each after the success of the one before
SpecTwice == Init /\ [][NextTwice]_vars

TypeOK ==
    /\ fs \in [Paths -> Contents \cup {NoFile}]
    /\ \A i \in 1..Len(index) :
          index[i].env # NoEnv =>
              index[i].env[1].client \in Requirement /\ index[i].env[1].server \in Requirement
    /\ result \in {"none", "Ok", "IOError", "AllDownloadsFailed", "DeleteFailed", "Panic"}
    /\ pc \in {"files", "overrides", "prune_index", "prune_overrides", "done"}
    /\ (result # "none") <=> (pc = "done")

----------------------------------------------------------------------------
(* main: read_overrides *)

\* an entry of the archive: its name as the components between the slashes,
\* whether the name ends with a slash (is_dir), its bytes, and what is wrong
\* with it: "none", "by_index" (zip.by_index(i) returns Err) or "read" (its
\* bytes cannot be read to the end, as when they do not match the checksum)
ZipFile(name, dir, data, fault) ==
    [name |-> name, dir |-> dir, data |-> data, fault |-> fault]

ZipEntries ==
    { ZipFile(<<"overrides", "config", "c.cfg">>, FALSE, "A", "none"),
      ZipFile(<<"server-overrides", "config", "c.cfg">>, FALSE, "B", "none"),
      ZipFile(<<"server-overrides", "config", "c.cfg">>, FALSE, "A", "none"),
      ZipFile(<<"server-overrides", "config", "c.cfg">>, FALSE, "B", "read"),
      ZipFile(<<"overrides", "mods", "a.jar">>, FALSE, "B", "none"),
      ZipFile(<<"overrides">>, TRUE, "-", "none"),
      ZipFile(<<"server-overrides", "config">>, TRUE, "-", "none"),
      ZipFile(<<"client-overrides", "config", "c.cfg">>, FALSE, "B", "read"),
      ZipFile(<<"icon.png">>, FALSE, "B", "by_index"),
      ZipFile(<<"modrinth.index.json">>, FALSE, "A", "none") }

RECURSIVE Archives(_)
Archives(n) ==
    IF n = 0 THEN { <<>> }
    ELSE Archives(n - 1) \cup
         { Append(z, e) : z \in { y \in Archives(n - 1) : Len(y) = n - 1 }, e \in ZipEntries }

\* the two loops read the server-specific directory first
source_prefix_swapped(pass) == IF pass = 1 THEN "server-overrides" ELSE "overrides"

\* the directory of the archive each loop of read_overrides reads
source_prefix(pass) == IF pass = 1 THEN "overrides" ELSE "server-overrides"

\* name.strip_prefix(prefix + "/"), an Option: <<>> for None, <<rest>> for Some(rest)
strip_prefix(name, prefix) ==
    IF Len(name) >= 1 /\ name[1] = prefix THEN << Tail(name) >> ELSE <<>>

\* overrides.insert(path, data)
insert(map, path, data) ==
    [ p \in DOMAIN map \cup {path} |-> IF p = path THEN data ELSE map[p] ]

InitArchive ==
    /\ zip \in Archives(MaxZip)
    /\ zmap = <<>>
    /\ zpass = 1
    /\ zpos = 1
    /\ zresult = "none"
    /\ index = <<>>
    /\ files = <<>>
    /\ overrides = <<>>
    /\ prune = FALSE
    /\ fs = [p \in Paths |-> NoFile]
    /\ dirs = {}
    /\ pc = "main"
    /\ fileIdx = 1
    /\ urlIdx = 0
    /\ written = {}
    /\ dirIdx = 1
    /\ visited = {}
    /\ result = "none"
    /\ run = 1
    /\ log = <<>>

sync_state == <<index, files, overrides, prune, fs, dirs, pc, fileIdx, urlIdx,
                written, dirIdx, visited, result, run, log>>

\* the entry is one the loop reads the bytes of
is_override(file, pass) ==
    LET path == strip_prefix(file.name, source_prefix(pass)) IN
    path # <<>> /\ path[1] # <<>> /\ ~file.dir

\* one iteration of either loop: `?` returns the error of by_index and of
\* read_to_end, and the map built so far is dropped
ReadEntry ==
    /\ zpass \in {1, 2}
    /\ zpos <= Len(zip)
    /\ LET file == zip[zpos]
           failed == \/ file.fault = "by_index"
                     \/ file.fault = "read" /\ is_override(file, zpass)
       IN  IF failed
           THEN /\ zresult' = "Err"
                /\ zpass' = 3
                /\ zmap' = <<>>
                /\ UNCHANGED zpos
           ELSE /\ zmap' = IF is_override(file, zpass)
                           THEN insert(zmap, strip_prefix(file.name, source_prefix(zpass))[1],
                                       file.data)
                           ELSE zmap
                /\ zpos' = zpos + 1
                /\ UNCHANGED <<zpass, zresult>>
    /\ UNCHANGED <<zip, sync_state>>

\* a loop has gone through the archive: the next one starts, or the map is returned
LoopOver ==
    /\ zpass \in {1, 2}
    /\ zpos > Len(zip)
    /\ zpass' = zpass + 1
    /\ zpos' = 1
    /\ zresult' = IF zpass = 2 THEN "Ok" ELSE zresult
    /\ UNCHANGED <<zip, zmap, sync_state>>

NextArchive ==
    \/ ReadEntry
    \/ LoopOver

\* one call of read_overrides on an opened archive
SpecArchive == InitArchive /\ [][NextArchive]_vars

----------------------------------------------------------------------------
(* Reading the log *)

\* the paths of the filtered declared-file set
DeclaredPaths == { files[i].path : i \in 1..Len(files) }

\* the entry of the filtered set declared at the path
EntryAt(path) == CHOOSE f \in { files[i] : i \in 1..Len(files) } : f.path = path

\* the operations that put bytes into a file, and those that remove one
IsWrite(e) ==
    \/ e.op = "get" /\ e.out \in {"ok", "not_found"}
    \/ e.op = "override" /\ e.out = "Ok"

IsDelete(e) == e.op = "delete" /\ e.out = "Ok"

\* a fetch attempt that returned Err
IsFailedGet(e) == e.op = "get" /\ e.out \in {"DownloadFailed", "IOError"}

\* the positions of the fetch attempts for the path, in order
GetsOf(path) ==
    SelectSeq([i \in 1..Len(log) |-> i],
              LAMBDA i : log[i].op = "get" /\ log[i].path = path)

----------------------------------------------------------------------------
(* C1  Prune safety *)

\* C1: in a prune-mode sync no file whose path is in the filtered declared set
\* or in the override map is deleted by the prune phase, whatever managed root
\* it lies under.
C1_PruneNeverDeletesKnown ==
    \A i \in 1..Len(log) :
        IsDelete(log[i]) =>
            ~(is_in_index(log[i].path) \/ is_in_overrides(log[i].path))

----------------------------------------------------------------------------
(* C2  Idempotence *)

\* C2: a second sync after a successful one, with the same manifest, overrides
\* and mirrors and an untouched filesystem, writes no file and deletes none.
C2_SecondRunTouchesNothing ==
    run >= 2 => \A i \in 1..Len(log) : ~IsWrite(log[i]) /\ ~IsDelete(log[i])

----------------------------------------------------------------------------
(* C3  A valid local file is left alone *)

\* the content File::open found matches both digests the entry declares
MatchesBoth(data, mr_file) ==
    /\ data # NoFile
    /\ Sha1(data) = mr_file.hashes.sha1
    /\ Sha512(data) = mr_file.hashes.sha512

\* C3: when the local file of a declared entry exists and matches both expected
\* digests, no fetch is attempted for the entry, and the declared-file phase
\* leaves the file as it was.
C3_ValidFileUntouched ==
    \A i \in 1..Len(log) :
        (log[i].op = "open" /\ MatchesBoth(log[i].data, EntryAt(log[i].path))) =>
            /\ GetsOf(log[i].path) = <<>>
            /\ (i < Len(log) => log[i + 1].op # "mkdir")
            /\ (i = Len(log) /\ result = "none" => urlIdx = 0)
            /\ (pc = "files" => fs[log[i].path] = log[i].data)

----------------------------------------------------------------------------
(* C4  Total mirror exhaustion *)

\* C4: when every URL of an entry that needs fetching has failed, sync ends
\* with AllDownloadsFailed and no file is left at the entry's path.
C4_ExhaustionLeavesNoFile ==
    result = "AllDownloadsFailed" => fs[files[fileIdx].path] = NoFile

----------------------------------------------------------------------------
(* C5  Mirror fallback *)

\* C5: the URLs of an entry are attempted in declared order, once each; every
\* attempt but the last has failed; and after a successful attempt the file
\* holds exactly the body that URL served, for as long as the declared-file
\* phase lasts.
C5_MirrorFallback ==
    \A path \in Paths :
        LET gets == GetsOf(path) IN
        gets # <<>> =>
            LET file == EntryAt(path)
                last == log[gets[Len(gets)]] IN
            /\ Len(gets) <= Len(file.downloads)
            /\ \A k \in 1..Len(gets) : log[gets[k]].url = file.downloads[k]
            /\ \A k \in 1..(Len(gets) - 1) : IsFailedGet(log[gets[k]])
            /\ (IsWrite(last) /\ pc = "files") =>
                   /\ last.cause = "Ok"
                   /\ fs[path] = last.data

\* the first mirror failed after it had written part of the file, and the
\* second one served the file
C5_Witness ==
    \E path \in Paths :
        LET gets == GetsOf(path) IN
        /\ Len(gets) = 2
        /\ IsFailedGet(log[gets[1]])
        /\ log[gets[1]].out = "IOError"
        /\ log[gets[1]].cause = "BodyErr"
        /\ IsWrite(log[gets[2]])
        /\ pc = "files"
        /\ fs[path] = "A"

----------------------------------------------------------------------------
(* C6  Repair on corruption *)

\* C6: an invalid local file is deleted before the first fetch attempt for its
\* entry begins: when download_file is about to try the first URL, there is no
\* file at the path.
C6_InvalidFileDeletedBeforeFetch ==
    (pc = "files" /\ urlIdx = 1) => fs[files[fileIdx].path] = NoFile

----------------------------------------------------------------------------
(* C7  Validity requires both digests *)

\* download_file was entered for the entry opened at position i of the log
Fetched(i) ==
    \/ i = Len(log) /\ (urlIdx >= 1 \/ result = "AllDownloadsFailed")
    \/ i < Len(log) /\ log[i + 1].op \in {"mkdir", "get"}

\* the read of the file opened at position i failed: sync ended by a panic
\* while the declared-file loop was at that file
ReadFailed(i) ==
    /\ i = Len(log)
    /\ result = "Panic"
    /\ fileIdx <= Len(files)
    /\ files[fileIdx].path = log[i].path

\* C7: a local file that was read is taken as valid exactly when its SHA-1 and
\* its SHA-512 both equal the declared digests; a file matching one digest
\* only is fetched again.
C7_ValidIffBothDigests ==
    \A i \in 1..Len(log) :
        (log[i].op = "open" /\ log[i].out # NoFile /\ ~ReadFailed(i)) =>
            (Fetched(i) <=> ~MatchesBoth(log[i].out, EntryAt(log[i].path)))

\* a file whose SHA-512 is the declared one and whose SHA-1 is not was read and
\* fetched again
C7_Witness ==
    \E i \in 1..Len(log) :
        /\ log[i].op = "open"
        /\ log[i].out # NoFile
        /\ Fetched(i)
        /\ LET h == EntryAt(log[i].path).hashes IN
           /\ Sha1(log[i].out) # h.sha1
           /\ Sha512(log[i].out) = h.sha512

----------------------------------------------------------------------------
(* C8  Environment filtering *)

\* the entry applies to a server: no environment, or a server requirement
\* other than Unsupported
AppliesToServer(f) == f.env = NoEnv \/ f.env[1].server \in {"Required", "Optional"}

\* the declared entries the filter drops
Excluded == { index[i] : i \in { j \in 1..Len(index) : ~AppliesToServer(index[j]) } }

\* C8: the engine's file set is the declared files that apply to a server, in
\* declared order; an excluded entry is never opened or fetched; and pruning
\* does not know it: its path is no member of the index-managed roots.
C8_EnvironmentFilter ==
    /\ files = SelectSeq(index, AppliesToServer)
    /\ \A e \in Excluded :
          /\ \A i \in 1..Len(log) :
                log[i].op \in {"open", "get"} => log[i].path # e.path
          /\ ~is_in_index(e.path)

\* a sync that fetched a kept entry (one that no client supports) and pruned
\* the file found at the path of an excluded one
C8_Witness ==
    /\ result = "Ok"
    /\ \E e \in Excluded : \E i \in 1..Len(log) :
          IsDelete(log[i]) /\ log[i].path = e.path
    /\ \E i \in 1..Len(log) :
          /\ IsWrite(log[i])
          /\ log[i].op = "get"
          /\ EntryAt(log[i].path).env # NoEnv
          /\ EntryAt(log[i].path).env[1].client = "Unsupported"

----------------------------------------------------------------------------
(* C9  Fail-fast *)

\* download_file got to its loop for the entry at the path, every URL of the
\* entry has been attempted and the last attempt failed
Exhausted(path) ==
    LET gets == GetsOf(path) IN
    /\ path \in DeclaredPaths
    /\ \E i \in 1..Len(log) :
          /\ log[i].op = "open"
          /\ log[i].path = path
          /\ Fetched(i)
          /\ ~(i < Len(log) /\ log[i + 1].op = "mkdir" /\ log[i + 1].out = "IOError")
    /\ Len(gets) = Len(EntryAt(path).downloads)
    /\ gets # <<>> => IsFailedGet(log[gets[Len(gets)]])

\* C9: the first entry to exhaust its mirrors ends sync with AllDownloadsFailed:
\* the failed attempt is the last operation of the run, no later entry is
\* opened or fetched, no override is written and nothing is pruned.
C9_FailFast ==
    /\ \A path \in Paths :
          Exhausted(path) =>
              /\ result = "AllDownloadsFailed"
              /\ files[fileIdx].path = path
              /\ log[Len(log)].op \in {"open", "mkdir", "get"}
              /\ log[Len(log)].op = "get" <=> EntryAt(path).downloads # <<>>
              /\ log[Len(log)].op # "mkdir" => log[Len(log)].path = path
    /\ result = "AllDownloadsFailed" =>
          /\ Exhausted(files[fileIdx].path)
          /\ \A i \in 1..Len(log) : log[i].op \notin {"override", "delete"}
          /\ \A k \in (fileIdx + 1)..Len(files) : \A i \in 1..Len(log) :
                log[i].path # files[k].path

\* mirrors ran out for the first of two entries, with overrides to write and
\* prune mode on
C9_Witness ==
    /\ result = "AllDownloadsFailed"
    /\ fileIdx = 1
    /\ Len(GetsOf(files[1].path)) >= 2
    /\ Len(files) = 2
    /\ overrides # <<>>
    /\ prune
    /\ \E p \in Paths :
          fs[p] # NoFile /\ Parent(p) \in {"mods", "resourcepacks"} /\ ~is_in_index(p)

----------------------------------------------------------------------------
(* C10  Phase ordering *)

\* the entry was opened before position i of the log and was left valid or
\* was fetched with success
SettledBefore(file, i) ==
    /\ \E j \in 1..(i - 1) : log[j].op = "open" /\ log[j].path = file.path
    /\ LET gets == GetsOf(file.path) IN
       gets # <<>> => gets[Len(gets)] < i /\ IsWrite(log[gets[Len(gets)]])

\* C10: an override is written only after every declared entry has reached its
\* outcome, and a file is pruned only after every override has been written.
C10_PhaseOrdering ==
    \A i \in 1..Len(log) :
        /\ log[i].op = "override" =>
              /\ \A k \in 1..Len(files) : SettledBefore(files[k], i)
              /\ \A j \in (i + 1)..Len(log) : log[j].op \in {"override", "delete"}
        /\ log[i].op = "delete" =>
              /\ \A k \in 1..Len(files) : SettledBefore(files[k], i)
              /\ \A p \in DOMAIN overrides : \E j \in 1..(i - 1) :
                    log[j].op = "override" /\ log[j].path = p /\ log[j].out = "Ok"
              /\ \A j \in (i + 1)..Len(log) : log[j].op = "delete"

\* a sync that fetched two entries, wrote two overrides and pruned a file
C10_Witness ==
    /\ result = "Ok"
    /\ Len(files) = 2
    /\ \A k \in 1..Len(files) : GetsOf(files[k].path) # <<>>
    /\ Cardinality(DOMAIN overrides) = 2
    /\ \E i \in 1..Len(log) : IsDelete(log[i])

----------------------------------------------------------------------------
(* C11  Override materialization *)

\* C11: when sync returns success, every override of the map is on disk at its
\* path with exactly the override's bytes, whatever was there before.
C11_OverridesOnDisk ==
    result = "Ok" => \A p \in DOMAIN overrides : fs[p] = overrides[p]

----------------------------------------------------------------------------
(* C12  Override precedence *)

\* the positions of the archive holding a regular file for the path under the directory
SourcesOf(path, prefix) ==
    { i \in 1..Len(zip) : zip[i].name = <<prefix>> \o path /\ ~zip[i].dir }

\* the paths the archive names below one of the two override directories
ArchivePaths ==
    { Tail(zip[i].name) : i \in { j \in 1..Len(zip) : Len(zip[j].name) >= 2 } }

Last(S) == CHOOSE i \in S : \A j \in S : j <= i

\* C12: in the map read_overrides returns, a path present under both override
\* directories holds the server-specific content, a path present under one of
\* them holds that one's content, and no other path is in the map.
C12_ServerOverridesWin ==
    zresult = "Ok" =>
        /\ \A path \in ArchivePaths :
              LET server == SourcesOf(path, "server-overrides")
                  generic == SourcesOf(path, "overrides")
              IN  /\ server # {} =>
                        path \in DOMAIN zmap /\ zmap[path] = zip[Last(server)].data
                  /\ server = {} /\ generic # {} =>
                        path \in DOMAIN zmap /\ zmap[path] = zip[Last(generic)].data
                  /\ server = {} /\ generic = {} => path \notin DOMAIN zmap
        /\ DOMAIN zmap \subseteq ArchivePaths

\* read_overrides has returned for an archive where the generic entry of a path
\* comes after its server-specific entry and differs from it
C12_Witness ==
    /\ zresult = "Ok"
    /\ \E i, j \in 1..Len(zip) :
          /\ i < j
          /\ zip[i].name = <<"server-overrides", "config", "c.cfg">>
          /\ zip[j].name = <<"overrides", "config", "c.cfg">>
          /\ zip[i].data # zip[j].data
          /\ zmap[<<"config", "c.cfg">>] = zip[i].data

----------------------------------------------------------------------------
(* C13  Filesystem errors are immediately fatal *)

\* the i-th operation of the log failed on the local filesystem: create_dir_all,
\* the read of the local file, File::create or write_all of a download (the
\* mirror did not fail), or the write of an override
LocalFsError(i) ==
    \/ log[i].op \in {"mkdir", "override"} /\ log[i].out = "IOError"
    \/ log[i].op = "get" /\ log[i].cause \in {"CreateErr", "WriteErr"}
    \/ log[i].op = "open" /\ ReadFailed(i)

\* C13: a local filesystem error is the last operation of the call, and the call
\* returns IOError.
C13_FsErrorFatal ==
    \A i \in 1..Len(log) :
        LocalFsError(i) => i = Len(log) /\ result = "IOError"

----------------------------------------------------------------------------
(* C14  A non-success status is a failed fetch *)

\* the fetch attempt returned Ok on a response with the status
SucceededOn(e, status) == e.op = "get" /\ e.cause = "Ok" /\ e.out = status

\* C14: no fetch attempt succeeds on a response with a non-success status, and
\* right after such an attempt the body of that response is not the content of
\* the declared file.
C14_NonSuccessStatusFails ==
    \A i \in 1..Len(log) :
        /\ ~SucceededOn(log[i], "not_found")
        /\ (i = Len(log) /\ log[i].op = "get" /\ log[i].out = "not_found") =>
               fs[log[i].path] # log[i].data

----------------------------------------------------------------------------
(* C15  Prune completeness *)

\* the directories of a list of prune roots
Roots(list) == { list[i] : i \in 1..Len(list) }

\* C15: when a prune-mode sync returns success, every file on disk under mods or
\* resourcepacks is a declared file of the filtered set, and every file on disk
\* under config is an override of the map.
C15_PruneComplete ==
    (result = "Ok" /\ prune) =>
        \A p \in Paths :
            fs[p] # NoFile =>
                /\ Parent(p) \in Roots(PRUNE_DIRECTORIES_INDEX) => p \in DeclaredPaths
                /\ Parent(p) \in Roots(PRUNE_DIRECTORIES_OVERRIDES) => p \in DOMAIN overrides

----------------------------------------------------------------------------
(* C16  A deletion failure is fatal *)

\* C16: a failed deletion is the last operation of the call, the call returns
\* DeleteFailed, and the files pruned before it are still deleted.
C16_DeleteFailureFatal ==
    \A i \in 1..Len(log) :
        (log[i].op = "delete" /\ log[i].out = "DeleteFailed") =>
            /\ i = Len(log)
            /\ result = "DeleteFailed"
            /\ \A j \in 1..(i - 1) : IsDelete(log[j]) => fs[log[j].path] = NoFile

\* a deletion failed after another file had been pruned
C16_Witness ==
    /\ result = "DeleteFailed"
    /\ \E i, j \in 1..Len(log) :
          /\ j < i
          /\ IsDelete(log[j])
          /\ log[i].op = "delete"
          /\ log[i].out = "DeleteFailed"

----------------------------------------------------------------------------
(* C17  Terminal result *)

\* C17: a call of sync that has ended has returned success or one of IOError,
\* AllDownloadsFailed and DeleteFailed.
C17_TerminalResult ==
    pc = "done" => result \in {"Ok", "IOError", "AllDownloadsFailed", "DeleteFailed"}

----------------------------------------------------------------------------
(* C18  Conformance on success *)

\* C18: when sync returns success, every declared file of the filtered set is on
\* disk with content matching both of its digests.
C18_ConformanceOnSuccess ==
    result = "Ok" =>
        \A i \in 1..Len(files) : MatchesBoth(fs[files[i].path], files[i])

----------------------------------------------------------------------------
(* C19  Deletion scope *)

ManagedRoots == Roots(PRUNE_DIRECTORIES_INDEX) \cup Roots(PRUNE_DIRECTORIES_OVERRIDES)

\* C19: no step of sync removes a directory, and a step that removes a file is a
\* step of the prune phase of a prune-mode call on a file under mods,
\* resourcepacks or config.
C19_DeletionScope ==
    [][ /\ dirs \subseteq dirs'
        /\ \A p \in Paths :
              (fs[p] # NoFile /\ fs'[p] = NoFile) =>
                  /\ prune
                  /\ pc \in {"prune_index", "prune_overrides"}
                  /\ Parent(p) \in ManagedRoots ]_vars

\* the prune phase has deleted the only file under config, and the directory is
\* still there
C19_Witness ==
    /\ \E i \in 1..Len(log) : IsDelete(log[i]) /\ log[i].path = "config/c.cfg"
    /\ \A p \in Paths : Parent(p) = "config" => fs[p] = NoFile
    /\ "config" \in dirs

====
